---- MODULE Spec2Model ----
(***************************************************************************)
(* Model of the a-cli terminal client (src/src/model.go): the bubbletea    *)
(* Model, its Update handler (the Typing / Querying / Refreshing           *)
(* controller), the result projection (UpdateQueryMeta, UpdateMatchesTable,*)
(* UpdateTotals, UpdateGraphs, makeGraphs) and the messages in flight      *)
(* (query commands, refresh ticks, pulse ticks, deferred highlight         *)
(* updates).                                                               *)
(*                                                                         *)
(* Go strings are sequences of byte codes, so that sort.Strings,           *)
(* sort.SearchStrings and the FNV-1a hash are computed as the code         *)
(* computes them.  Go pointers are records with a nil flag.  int is the    *)
(* 64-bit int of the usual builds.                                         *)
(***************************************************************************)
EXTENDS Integers, Sequences, FiniteSets, Bags, TLC

\* ------------------------------------------------------------------ bounds

\* Longest text the user types into the query text area.
MaxLen == 2
\* Most refresh-timer messages in flight at once.
MaxTicks == 2
\* The user presses no key while this many highlight updates are in flight.
MaxUpdates == 1
\* The first key is pressed at most this many pulse ticks into a pulse cycle
\* of the splash screen.
MaxSplashTicks == 1

\* ----------------------------------------------------------------- strings

\* "<nil>", what fmt's %v prints for a missing map entry
NilStr == <<60, 110, 105, 108, 62>>
\* ", ", the separator of strings.Join in getGroupKey
Sep == <<44, 32>>
\* "_time", the fixed leading column of the matches table
TimeCol == <<95, 116, 105, 109, 101>>

S_a == <<97>>
S_b == <<98>>
S_0 == <<48>>
S_n == <<110>>
S_svc == <<115, 118, 99>>
S_avg == <<97, 118, 103>>
S_cnt == <<99, 110, 116>>

\* Go's < on strings: bytewise lexicographic order
RECURSIVE StrLess(_, _)
StrLess(s, t) ==
    IF t = <<>> THEN FALSE
    ELSE IF s = <<>> THEN TRUE
    ELSE IF Head(s) # Head(t) THEN Head(s) < Head(t)
    ELSE StrLess(Tail(s), Tail(t))

\* decimal digits of a natural number
RECURSIVE Decimal(_)
Decimal(n) ==
    IF n < 10 THEN <<48 + n>> ELSE Decimal(n \div 10) \o <<48 + (n % 10)>>

\* scalar values of the query result: string, int, float64 (whole-valued
\* here) or nil (a map lookup of a missing key)
StrVal(s) == [t |-> "string", s |-> s, n |-> 0]
IntVal(n) == [t |-> "int", s |-> <<>>, n |-> n]
FloatVal(n) == [t |-> "float64", s |-> <<>>, n |-> n]
NilVal == [t |-> "nil", s |-> <<>>, n |-> 0]

\* fmt.Sprintf("%v", value)
Sprint(v) ==
    IF v.t = "string" THEN v.s
    ELSE IF v.t = "nil" THEN NilStr
    ELSE Decimal(v.n)

\* group[k] of a Go map: the zero value (nil) when the key is missing
Lookup(map, k) == IF k \in DOMAIN map THEN map[k] ELSE NilVal

\* strings.Join(elems, ", ")
RECURSIVE Join(_)
Join(elems) ==
    IF elems = <<>> THEN <<>>
    ELSE IF Len(elems) = 1 THEN elems[1]
    ELSE elems[1] \o Sep \o Join(Tail(elems))

getGroupKey(orderedGroupKeys, group) ==
    Join([i \in 1..Len(orderedGroupKeys) |->
             Sprint(Lookup(group, orderedGroupKeys[i]))])

stringInSlice(str, slice) == \E i \in 1..Len(slice) : slice[i] = str

\* sort.Strings: insertion of each element into a sorted sequence
RECURSIVE InsertSorted(_, _)
InsertSorted(x, sorted) ==
    IF sorted = <<>> THEN <<x>>
    ELSE IF StrLess(Head(sorted), x) THEN <<Head(sorted)>> \o InsertSorted(x, Tail(sorted))
    ELSE <<x>> \o sorted

RECURSIVE SortStrings(_)
SortStrings(seq) ==
    IF seq = <<>> THEN <<>> ELSE InsertSorted(Head(seq), SortStrings(Tail(seq)))

\* sort.SearchStrings(a, x): binary search for the smallest 0-based index i
\* with a[i] >= x, Len(a) when there is none
RECURSIVE SearchFrom(_, _, _, _)
SearchFrom(a, x, lo, hi) ==
    IF lo < hi
    THEN LET h == (lo + hi) \div 2
         IN  IF StrLess(a[h + 1], x) THEN SearchFrom(a, x, h + 1, hi)
             ELSE SearchFrom(a, x, lo, h)
    ELSE lo

SearchStrings(a, x) == SearchFrom(a, x, 0, Len(a))

\* ------------------------------------------------------------------- hash

\* xor of two naturals below 2^bits
RECURSIVE Xor(_, _, _)
Xor(x, y, bits) ==
    IF bits = 0 THEN 0
    ELSE ((x + y) % 2) + 2 * Xor(x \div 2, y \div 2, bits - 1)

\* The 32-bit FNV-1a state as two 16-bit halves: offset basis 2166136261 =
\* 0x811C9DC5, prime 16777619 = 2^24 + 403.
FnvOffset == [hi |-> 33052, lo |-> 40389]

FnvStep(h, byte) ==
    LET x == (h.lo \div 256) * 256 + Xor(h.lo % 256, byte, 8)
        low == x * 403
    IN  [lo |-> low % 65536,
         hi |-> (h.hi * 403 + (low \div 65536) + (x % 256) * 256) % 65536]

RECURSIVE Fnv(_, _)
Fnv(h, s) == IF s = <<>> THEN h ELSE Fnv(FnvStep(h, Head(s)), Tail(s))

\* number of palette entries, len(COLORS)
NumColors == 16

\* hash(group) % len(COLORS): the low bits of the non-negative 64-bit int
ColorIdx(s) == Fnv(FnvOffset, s).lo % NumColors

\* asciigraph.SlateGray, the colour of a series that is not highlighted; the
\* palette entries are 0..NumColors-1
SlateGray == 100

\* ----------------------------------------------------------- query results

\* a nil pointer (nil *Result, nil *QueryMeta, nil *table.Model, nil *[]GraphData, nil error)
Null == [nil |-> TRUE]

Range(seq) == {seq[i] : i \in 1..Len(seq)}

RECURSIVE Concat(_)
Concat(seqs) == IF seqs = <<>> THEN <<>> ELSE Head(seqs) \o Concat(Tail(seqs))

\* the orders in which a range over a Go map can enumerate its keys
KeyOrders(map) ==
    {f \in [1..Cardinality(DOMAIN map) -> DOMAIN map] :
        \A i, j \in DOMAIN f : i # j => f[i] # f[j]}

Agg(alias, value) == [Alias |-> alias, Value |-> value]
EntryGroup(group, aggs) == [Group |-> group, Aggregations |-> aggs]
Interval(groups) == [Groups |-> groups]
Match(time, data) == [Time |-> time, Data |-> data]
Result(matches, series, totals) ==
    [nil |-> FALSE, Matches |-> matches, Series |-> series, Totals |-> totals]

GroupA == S_svc :> StrVal(S_a)
GroupB == S_svc :> StrVal(S_b)
Group0 == S_svc :> StrVal(S_0)
NoGroup == << >>
GroupBlank == S_svc :> StrVal(<<>>)

\* no matches, no intervals, no totals
ResEmpty == Result(<<>>, <<>>, <<>>)

\* Two groups and two ops over two intervals: group b is missing from the
\* second interval, and the count is an integer, not a float64.  The avg
\* series is [[10, 15], [20, -]].
ResTwoGroups ==
    Result(<<>>,
           <<Interval(<<EntryGroup(GroupA, <<Agg(S_avg, FloatVal(10)), Agg(S_cnt, IntVal(4))>>),
                        EntryGroup(GroupB, <<Agg(S_avg, FloatVal(20)), Agg(S_cnt, IntVal(5))>>)>>),
             Interval(<<EntryGroup(GroupA, <<Agg(S_avg, FloatVal(15)), Agg(S_cnt, IntVal(6))>>)>>)>>,
           <<EntryGroup(GroupA, <<Agg(S_avg, FloatVal(12)), Agg(S_cnt, IntVal(10))>>),
             EntryGroup(GroupB, <<Agg(S_avg, FloatVal(20)), Agg(S_cnt, IntVal(5))>>)>>)

\* matches only (a query without summarize)
ResMatches ==
    Result(<<Match(1, (S_svc :> StrVal(S_a)) @@ (S_n :> IntVal(3))),
             Match(2, (S_svc :> StrVal(S_b)) @@ (S_n :> FloatVal(4)))>>,
           <<>>, <<>>)

\* totals without intervals (a summarize without a time bin)
ResTotalsOnly ==
    Result(<<>>, <<>>, <<EntryGroup(GroupA, <<Agg(S_cnt, FloatVal(3))>>)>>)

\* intervals with an aggregation, no totals
ResSeriesOnly ==
    Result(<<>>,
           <<Interval(<<EntryGroup(GroupA, <<Agg(S_cnt, FloatVal(1))>>)>>)>>,
           <<>>)

\* an entry group without group dimensions ahead of one with them
ResMixedGroups ==
    Result(<<>>,
           <<Interval(<<EntryGroup(NoGroup, <<Agg(S_cnt, FloatVal(1))>>),
                        EntryGroup(Group0, <<Agg(S_cnt, FloatVal(2))>>)>>)>>,
           <<EntryGroup(Group0, <<Agg(S_cnt, FloatVal(3))>>)>>)

\* a group whose dimension value is the empty string, next to group a
ResBlankGroup ==
    Result(<<>>,
           <<Interval(<<EntryGroup(GroupBlank, <<Agg(S_cnt, FloatVal(1))>>),
                        EntryGroup(GroupA, <<Agg(S_cnt, FloatVal(2))>>)>>)>>,
           <<EntryGroup(GroupBlank, <<Agg(S_cnt, FloatVal(1))>>),
             EntryGroup(GroupA, <<Agg(S_cnt, FloatVal(2))>>)>>)

\* the results the transport returns in this model
Results ==
    {ResEmpty, ResTwoGroups, ResMatches, ResBlankGroup,
     ResTotalsOnly, ResSeriesOnly, ResMixedGroups}

\* the transport's error values: nil, or an error
NoError == Null
QueryFailed == [nil |-> FALSE, text |-> "query failed"]

\* ------------------------------------------------------------- projection

\* a float64 cell of a graph matrix: math.NaN(), or a number
NaN == [nan |-> TRUE, v |-> 0]
Num(n) == [nan |-> FALSE, v |-> n]

\* all entry groups of the series, interval by interval
SeriesGroups(result) ==
    Concat([i \in 1..Len(result.Series) |-> result.Series[i].Groups])

\* the loop of UpdateQueryMeta over the entry groups, carrying
\* orderedGroupKeys, opsCount and groups
RECURSIVE MetaWalk(_, _)
MetaWalk(entries, acc) ==
    IF entries = <<>> THEN acc
    ELSE LET group == Head(entries)
             keys == IF Len(acc.orderedGroupKeys) = 0 /\ DOMAIN group.Group # {}
                     THEN SortStrings(CHOOSE f \in KeyOrders(group.Group) : TRUE)
                     ELSE acc.orderedGroupKeys
             count == IF Len(group.Aggregations) > acc.opsCount
                      THEN Len(group.Aggregations) ELSE acc.opsCount
             key == getGroupKey(keys, group.Group)
             groups == IF ~stringInSlice(key, acc.groups)
                       THEN Append(acc.groups, key) ELSE acc.groups
         IN  MetaWalk(Tail(entries),
                      [orderedGroupKeys |-> keys, opsCount |-> count, groups |-> groups])

\* the loop of UpdateQueryMeta over the totals' aggregations: one Op per
\* alias, in first-seen order
RECURSIVE OpsWalk(_, _)
OpsWalk(aggs, ops) ==
    IF aggs = <<>> THEN ops
    ELSE LET alias == Head(aggs).Alias
         IN  OpsWalk(Tail(aggs),
                     IF \E i \in 1..Len(ops) : ops[i].name = alias
                     THEN ops ELSE Append(ops, [name |-> alias]))

UpdateQueryMeta(result) ==
    IF result.nil \/ Len(result.Series) = 0 THEN Null
    ELSE LET walk == MetaWalk(SeriesGroups(result),
                              [orderedGroupKeys |-> <<>>, opsCount |-> 0, groups |-> <<>>])
             ops == OpsWalk(Concat([i \in 1..Len(result.Totals) |->
                                       result.Totals[i].Aggregations]), <<>>)
             groups == SortStrings(walk.groups)
         IN  [nil |-> FALSE,
              orderedGroupKeys |-> walk.orderedGroupKeys,
              opsCount |-> walk.opsCount,
              intervals |-> Len(result.Series),
              groups |-> groups,
              ops |-> ops,
              groupColors |-> [g \in Range(groups) |-> ColorIdx(g)]]

\* makeGraphs with every row one cell short of the intervals
makeGraphsShortRows(queryMeta, highlightedGroup) ==
    [g \in 1..Len(queryMeta.ops) |->
        [title |-> queryMeta.ops[g].name,
         data |-> [r \in 1..Len(queryMeta.groups) |->
                      [c \in 1..(queryMeta.intervals - 1) |-> Num(0)]],
         colors |-> [r \in 1..Len(queryMeta.groups) |->
                        IF highlightedGroup # <<>> /\ queryMeta.groups[r] # highlightedGroup
                        THEN SlateGray
                        ELSE queryMeta.groupColors[queryMeta.groups[r]]]]]

\* One GraphData per op: a zero-filled |groups| x intervals matrix (Go's make)
\* and one colour per group
makeGraphs(queryMeta, highlightedGroup) ==
    [g \in 1..Len(queryMeta.ops) |->
        [title |-> queryMeta.ops[g].name,
         data |-> [r \in 1..Len(queryMeta.groups) |->
                      [c \in 1..queryMeta.intervals |-> Num(0)]],
         colors |-> [r \in 1..Len(queryMeta.groups) |->
                        IF highlightedGroup # <<>> /\ queryMeta.groups[r] # highlightedGroup
                        THEN SlateGray
                        ELSE queryMeta.groupColors[queryMeta.groups[r]]]]]

\* the float64 stored for an aggregation: its value, NaN when it is no float64
IntervalValue(value) == IF value.t = "float64" THEN Num(value.n) ELSE NaN

\* The assignments data[intervalIdx] = intervalValue of UpdateGraphs in the
\* order the loops make them, with 0-based indices
GraphWrites(result, queryMeta) ==
    Concat([i \in 1..Len(result.Series) |->
        Concat([j \in 1..Len(result.Series[i].Groups) |->
            LET group == result.Series[i].Groups[j]
                groupKey == getGroupKey(queryMeta.orderedGroupKeys, group.Group)
                graphsDataIdx == SearchStrings(queryMeta.groups, groupKey)
            IN  [k \in 1..Len(group.Aggregations) |->
                    [graphIdx |-> k - 1,
                     graphsDataIdx |-> graphsDataIdx,
                     intervalIdx |-> i - 1,
                     intervalValue |-> IntervalValue(group.Aggregations[k].Value)]]])])

\* index out of range in graphs[graphIdx] or graph.data[graphsDataIdx]
WriteFaults(w, queryMeta) ==
    \/ w.graphIdx >= Len(queryMeta.ops)
    \/ w.graphsDataIdx >= Len(queryMeta.groups)

RECURSIVE ApplyWrites(_, _)
ApplyWrites(writes, graphs) ==
    IF writes = <<>> THEN graphs
    ELSE LET w == Head(writes)
         IN  ApplyWrites(Tail(writes),
                 [graphs EXCEPT ![w.graphIdx + 1].data[w.graphsDataIdx + 1][w.intervalIdx + 1] =
                                    w.intervalValue])

\* UpdateGraphs past its first return: the graphs of makeGraphs filled from
\* the series, or a panic on an index out of range (or on a nil queryMeta)
FillGraphs(result, queryMeta, highlightedGroup) ==
    IF queryMeta.nil THEN [panic |-> TRUE, graphs |-> Null]
    ELSE IF \E i \in 1..Len(GraphWrites(result, queryMeta)) :
                WriteFaults(GraphWrites(result, queryMeta)[i], queryMeta)
    THEN [panic |-> TRUE, graphs |-> Null]
    ELSE [panic |-> FALSE,
          graphs |-> [nil |-> FALSE,
                      list |-> ApplyWrites(GraphWrites(result, queryMeta),
                                           makeGraphs(queryMeta, highlightedGroup))]]

\* UpdateGraphs: the new m.graphs, or a panic
UpdateGraphs(result, queryMeta, highlightedGroup) ==
    IF result.nil \/ Len(result.Series) = 0
    THEN [panic |-> FALSE, graphs |-> Null]
    ELSE FillGraphs(result, queryMeta, highlightedGroup)

\* table.New: a table widget with its cursor on the first row
NewTable(columns, rows, focus) ==
    [nil |-> FALSE, columns |-> columns, rows |-> rows, cursor |-> 0, focus |-> focus]

\* UpdateTotals: the new m.totalsTable, or a panic on the nil queryMeta
UpdateTotals(result, queryMeta) ==
    IF result.nil \/ Len(result.Totals) = 0
    THEN [panic |-> FALSE, table |-> Null]
    ELSE IF queryMeta.nil
    THEN [panic |-> TRUE, table |-> Null]
    ELSE LET columns == queryMeta.orderedGroupKeys
                        \o [i \in 1..Len(queryMeta.ops) |-> queryMeta.ops[i].name]
             rows == [t \in 1..Len(result.Totals) |->
                        LET total == result.Totals[t]
                        IN  [i \in 1..Len(queryMeta.orderedGroupKeys) |->
                                Sprint(Lookup(total.Group, queryMeta.orderedGroupKeys[i]))]
                            \o [i \in 1..Len(total.Aggregations) |->
                                Sprint(total.Aggregations[i].Value)]]
         IN  [panic |-> FALSE, table |-> NewTable(columns, rows, FALSE)]

\* match.Time.String(): the full timestamp text of time t
TimeString(t) == <<84>> \o Decimal(t)

\* UpdateMatchesTable: the new m.matchesTable; keyOrder is the order in which
\* the range over the first match's Data enumerates its keys
UpdateMatchesTable(result, keyOrder) ==
    IF result.nil \/ Len(result.Matches) = 0 THEN Null
    ELSE LET columns == <<TimeCol>> \o keyOrder
             rows == [r \in 1..Len(result.Matches) |->
                        <<TimeString(result.Matches[r].Time)>>
                        \o [i \in 1..Len(keyOrder) |->
                               Sprint(Lookup(result.Matches[r].Data, keyOrder[i]))]]
         IN  NewTable(columns, rows, TRUE)

\* the key orders UpdateMatchesTable can see for a result
MatchKeyOrders(result) ==
    IF result.nil \/ Len(result.Matches) = 0 THEN {<<>>}
    ELSE KeyOrders(result.Matches[1].Data)

\* ------------------------------------------------------------------ model

TYPING == 0
QUERYING == 1
REFRESHING == 2

\* the keys the user presses: the four the controller names, two keys the
\* tables navigate by, and three the text area edits with
Keys == {"ctrl+c", "enter", "esc", "up", "down", "backspace", " ", "q"}

\* the byte a character key inserts
KeyChar(key) == IF key = " " THEN 32 ELSE 113
CharKeys == {" ", "q"}

IsSpace(c) == c \in {9, 10, 11, 12, 13, 32}

RECURSIVE TrimLeft(_)
TrimLeft(s) == IF s # <<>> /\ IsSpace(Head(s)) THEN TrimLeft(Tail(s)) ELSE s

RECURSIVE TrimRight(_)
TrimRight(s) ==
    IF s # <<>> /\ IsSpace(s[Len(s)]) THEN TrimRight(SubSeq(s, 1, Len(s) - 1)) ELSE s

\* strings.TrimSpace
TrimSpace(s) == TrimRight(TrimLeft(s))

\* textarea.Update for a key: a focused text area inserts a character key and
\* deletes on backspace; an unfocused one ignores the key
TextareaUpdate(textarea, key) ==
    IF ~textarea.focus THEN textarea
    ELSE IF key \in CharKeys
    THEN [textarea EXCEPT !.value = Append(@, KeyChar(key))]
    ELSE IF key = "backspace" /\ textarea.value # <<>>
    THEN [textarea EXCEPT !.value = SubSeq(@, 1, Len(@) - 1)]
    ELSE textarea

\* table.Update for a key: a focused table moves its cursor on up and down,
\* clamped to its rows
TableUpdate(table, key) ==
    IF ~table.focus THEN table
    ELSE IF key = "up"
    THEN [table EXCEPT !.cursor = IF @ - 1 < 0 THEN 0 ELSE @ - 1]
    ELSE IF key = "down"
    THEN [table EXCEPT !.cursor = IF @ + 1 > Len(table.rows) - 1
                                  THEN Len(table.rows) - 1 ELSE @ + 1]
    ELSE table

\* table.SelectedRow
SelectedRow(table) == table.rows[table.cursor + 1]

\* commands a handler returns, and the messages they deliver later
QueryCmd(apl) == [type |-> "Query", apl |-> apl]
TickCmd(msg) == [type |-> "Tick", msg |-> msg]
PulseCmd == [type |-> "Pulse"]
HighlightCmd(row) == [type |-> "Highlight", row |-> row]
QuitCmd == [type |-> "Quit"]

KeyMsg(key) == [type |-> "KeyMsg", key |-> key]
ResultMsg(apl, result, err) ==
    [type |-> "ResultMsg", apl |-> apl, result |-> result, err |-> err]
Msg(row) == [type |-> "Msg", row |-> row]
TimerMsg(kind, stale) == [type |-> kind, stale |-> stale]
PulseMsg == [type |-> "PulseMsg"]

\* what a handler returns: the model, its commands, or a panic
Done(model, cmds) == [panic |-> FALSE, m |-> model, cmds |-> cmds]
Panic(model) == [panic |-> TRUE, m |-> model, cmds |-> <<>>]

initialModel ==
    [ready |-> FALSE,
     textarea |-> [value |-> <<>>, focus |-> TRUE],
     state |-> TYPING,
     query |-> [apl |-> <<>>, result |-> Null, err |-> NoError],
     msg |-> "",
     matchesTable |-> Null,
     matchesTableHighlightedIdx |-> 0,
     graphs |-> Null,
     queryMeta |-> Null,
     totalsTable |-> Null,
     highlightedGroup |-> <<>>,
     refreshTimeout |-> 0,
     pulseStep |-> 9]

RunQuery(m, apl) ==
    Done([m EXCEPT !.msg = "Running query...", !.state = QUERYING], <<QueryCmd(apl)>>)

\* HighlightRow taking the highlight off again when the row's group is the
\* highlighted one
HighlightRowToggle(m, row) ==
    IF m.queryMeta.nil THEN Panic(m)
    ELSE IF Len(row) < Len(m.queryMeta.orderedGroupKeys) THEN Panic(m)
    ELSE IF UpdateGraphs(m.query.result, m.queryMeta, <<>>).panic THEN Panic(m)
    ELSE IF m.highlightedGroup
              = Join(SubSeq(row, 1, Len(m.queryMeta.orderedGroupKeys)))
    THEN Done([m EXCEPT !.highlightedGroup = <<>>,
                        !.graphs = UpdateGraphs(m.query.result, m.queryMeta, <<>>).graphs],
              <<>>)
    ELSE Done([m EXCEPT !.highlightedGroup =
                            Join(SubSeq(row, 1, Len(m.queryMeta.orderedGroupKeys))),
                        !.graphs = UpdateGraphs(m.query.result, m.queryMeta,
                                       Join(SubSeq(row, 1, Len(m.queryMeta.orderedGroupKeys)))).graphs],
              <<>>)

\* The deferred update HighlightRow(row) builds, applied to the model that
\* receives it
HighlightRow(m, row) ==
    IF m.queryMeta.nil THEN Panic(m)
    ELSE IF Len(row) < Len(m.queryMeta.orderedGroupKeys) THEN Panic(m)
    ELSE LET keys == m.queryMeta.orderedGroupKeys
             group == [k \in Range(keys) |->
                          StrVal(row[CHOOSE i \in 1..Len(keys) :
                                        /\ keys[i] = k
                                        /\ \A j \in 1..Len(keys) : keys[j] = k => j <= i])]
             groupKey == getGroupKey(keys, group)
             graphs == UpdateGraphs(m.query.result, m.queryMeta, groupKey)
         IN  IF graphs.panic THEN Panic(m)
             ELSE Done([m EXCEPT !.highlightedGroup = groupKey,
                                 !.graphs = graphs.graphs], <<>>)

UpdateQuery(m, msg) ==
    [m EXCEPT !.query = [apl |-> msg.apl, result |-> msg.result, err |-> msg.err]]

\* UpdateMatchesHighlight without the clamp at the last row
UpdateMatchesHighlightUnclamped(m, inc) ==
    [m EXCEPT !.matchesTableHighlightedIdx =
        IF @ + inc < 0 THEN 0 ELSE @ + inc]

UpdateMatchesHighlight(m, inc) ==
    LET nextIdx == m.matchesTableHighlightedIdx + inc
    IN  [m EXCEPT !.matchesTableHighlightedIdx =
            IF nextIdx < 0 THEN 0
            ELSE IF nextIdx >= Len(m.matchesTable.rows) THEN Len(m.matchesTable.rows) - 1
            ELSE nextIdx]

SetRefreshing(m) ==
    Done([m EXCEPT !.refreshTimeout = 5, !.state = REFRESHING],
         <<TickCmd("RefreshMsg")>>)

\* The tick's callback reads the refreshTimeout of the model copy that
\* scheduled it: the decremented one
UpdateRefreshing(m) ==
    LET timeout == m.refreshTimeout - 1
    IN  Done([m EXCEPT !.refreshTimeout = timeout],
             <<TickCmd(IF timeout <= 1 THEN "ReRunMsg" ELSE "RefreshMsg")>>)

\* UpdatePulse stepping down without wrapping to 9
UpdatePulseNoWrap(m) ==
    Done([m EXCEPT !.pulseStep = @ - 1], <<PulseCmd>>)

UpdatePulse(m) ==
    Done([m EXCEPT !.pulseStep = IF @ <= 0 THEN 9 ELSE @ - 1], <<PulseCmd>>)

\* Commit running the text as typed, white space included
CommitUntrimmed(m) ==
    IF TrimSpace(m.textarea.value) # <<>>
    THEN RunQuery(m, m.textarea.value)
    ELSE Done(m, <<>>)

\* case "enter" of the TYPING state: the trimmed text is run, unless it is empty
Commit(m) ==
    IF TrimSpace(m.textarea.value) # <<>>
    THEN RunQuery(m, TrimSpace(m.textarea.value))
    ELSE Done(m, <<>>)

\* case tea.KeyMsg of Update
UpdateKey(m, key) ==
    IF ~m.ready THEN Done([m EXCEPT !.ready = TRUE], <<>>)
    ELSE IF key = "ctrl+c" THEN Done(m, <<QuitCmd>>)
    ELSE IF m.state = TYPING
    THEN IF key = "enter" THEN Commit(m)
         ELSE Done([m EXCEPT !.textarea = TextareaUpdate(@, key)], <<>>)
    ELSE IF m.state = REFRESHING
    THEN IF key = "esc"
         THEN Done([m EXCEPT !.textarea.focus = TRUE, !.state = TYPING], <<>>)
         ELSE IF ~m.totalsTable.nil
         THEN IF ~m.totalsTable.focus
              THEN Done([m EXCEPT !.totalsTable.focus = TRUE],
                        <<HighlightCmd(SelectedRow(m.totalsTable))>>)
              ELSE LET totalsTable == TableUpdate(m.totalsTable, key)
                   IN  Done([m EXCEPT !.totalsTable = totalsTable],
                            <<HighlightCmd(SelectedRow(totalsTable))>>)
         ELSE IF ~m.matchesTable.nil
         THEN LET moved == [m EXCEPT !.matchesTable = TableUpdate(@, key)]
              IN  Done(IF key = "down" THEN UpdateMatchesHighlight(moved, 1)
                       ELSE IF key = "up" THEN UpdateMatchesHighlight(moved, -1)
                       ELSE moved, <<>>)
         ELSE Done(m, <<>>)
    ELSE Done(m, <<>>)

\* UpdateResult skipping the projection when the response carries no result,
\* so that the artifacts of the last success stay
UpdateResultKeepingLast(m, msg, keyOrder) ==
    IF msg.result.nil
    THEN SetRefreshing(UpdateQuery([m EXCEPT !.textarea.focus = FALSE,
                                             !.highlightedGroup = <<>>,
                                             !.matchesTableHighlightedIdx = -1], msg))
    ELSE IF UpdateTotals(msg.result, UpdateQueryMeta(msg.result)).panic
            \/ UpdateGraphs(msg.result, UpdateQueryMeta(msg.result), <<>>).panic
    THEN Panic(m)
    ELSE SetRefreshing([UpdateQuery([m EXCEPT !.textarea.focus = FALSE,
                                             !.highlightedGroup = <<>>], msg) EXCEPT
             !.queryMeta = UpdateQueryMeta(msg.result),
             !.matchesTableHighlightedIdx = -1,
             !.matchesTable = UpdateMatchesTable(msg.result, keyOrder),
             !.totalsTable = UpdateTotals(msg.result, UpdateQueryMeta(msg.result)).table,
             !.graphs = UpdateGraphs(msg.result, UpdateQueryMeta(msg.result), <<>>).graphs])

\* case ResultMsg of Update; a panic leaves the program without a new model
UpdateResult(m, msg, keyOrder) ==
    LET blurred == [m EXCEPT !.textarea.focus = FALSE, !.highlightedGroup = <<>>]
        queried == UpdateQuery(blurred, msg)
        queryMeta == UpdateQueryMeta(msg.result)
        totals == UpdateTotals(msg.result, queryMeta)
        graphs == UpdateGraphs(msg.result, queryMeta, <<>>)
    IN  IF totals.panic \/ graphs.panic THEN Panic(m)
        ELSE SetRefreshing([queried EXCEPT
                 !.queryMeta = queryMeta,
                 !.matchesTableHighlightedIdx = -1,
                 !.matchesTable = UpdateMatchesTable(msg.result, keyOrder),
                 !.totalsTable = totals.table,
                 !.graphs = graphs.graphs])

\* UpdateTimer re-running the text of the text area
UpdateTimerTyped(m, msg) ==
    IF m.state # REFRESHING THEN Done(m, <<>>)
    ELSE IF msg.type = "RefreshMsg" THEN UpdateRefreshing(m)
    ELSE RunQuery(m, m.textarea.value)

\* UpdateTimer re-running the query in whatever state the message finds
UpdateTimerUngated(m, msg) ==
    IF msg.type = "RefreshMsg"
    THEN IF m.state # REFRESHING THEN Done(m, <<>>) ELSE UpdateRefreshing(m)
    ELSE RunQuery(m, m.query.apl)

\* cases RefreshMsg and ReRunMsg of Update
UpdateTimer(m, msg) ==
    IF m.state # REFRESHING THEN Done(m, <<>>)
    ELSE IF msg.type = "RefreshMsg" THEN UpdateRefreshing(m)
    ELSE RunQuery(m, m.query.apl)

\* case PulseMsg of Update
UpdatePulseMsg(m) == IF ~m.ready THEN UpdatePulse(m) ELSE Done(m, <<>>)

\* Update: the handler of one message; keyOrder is the map enumeration order
\* a ResultMsg's projection sees
Update(m, msg, keyOrder) ==
    IF msg.type = "KeyMsg" THEN UpdateKey(m, msg.key)
    ELSE IF msg.type = "ResultMsg" THEN UpdateResult(m, msg, keyOrder)
    ELSE IF msg.type = "Msg" THEN HighlightRow(m, msg.row)
    ELSE IF msg.type \in {"RefreshMsg", "ReRunMsg"} THEN UpdateTimer(m, msg)
    ELSE UpdatePulseMsg(m)

\* ---------------------------------------------------------- state machine

VARIABLES
    m,        \* the Model the program holds
    status,   \* "running", "quit" (tea.Quit was returned) or "panic"
    queries,  \* bag of query texts whose transport call has not returned
    ticks,    \* bag of refresh-timer messages not yet delivered
    pulses,   \* number of PulseMsg not yet delivered
    updates,  \* bag of totals rows whose highlight update is not yet delivered
    shown,    \* the countdown values displayed since the countdown was armed
    committed \* the text of the last query the user submitted with enter

vars == <<m, status, queries, ticks, pulses, updates, shown, committed>>

\* what the transport can return: a result, an error without a result, and
\* an error next to a result
Responses ==
    {[result |-> r, err |-> NoError] : r \in Results}
    \cup {[result |-> Null, err |-> QueryFailed],
          [result |-> ResEmpty, err |-> QueryFailed]}

\* the commands of one kind among cmds, as a bag of what they deliver
Delivered(cmds, type, F(_)) ==
    LET idx == {i \in 1..Len(cmds) : cmds[i].type = type}
        vals == {F(cmds[i]) : i \in idx}
    IN  [v \in vals |-> Cardinality({i \in idx : F(cmds[i]) = v})]

QueryOf(cmd) == cmd.apl
\* the text the user has committed last, after a key whose handler returned cmds
Committed(cmds, before) ==
    IF \E i \in 1..Len(cmds) : cmds[i].type = "Query"
    THEN cmds[CHOOSE i \in 1..Len(cmds) : cmds[i].type = "Query"].apl
    ELSE before
TickOf(cmd) == TimerMsg(cmd.msg, FALSE)
RowOf(cmd) == cmd.row

\* a pending timer message seen from after an escape
MarkStale(bag) ==
    LET marked == {[t EXCEPT !.stale = TRUE] : t \in BagToSet(bag)}
    IN  [t \in marked |-> CopiesIn(t, bag) + CopiesIn([t EXCEPT !.stale = FALSE], bag)]

\* the countdown values displayed so far, after a step from model old to new
NextShown(old, new, armed) ==
    IF new.state # REFRESHING THEN <<>>
    ELSE IF armed THEN <<new.refreshTimeout>>
    ELSE IF new.refreshTimeout # old.refreshTimeout THEN Append(shown, new.refreshTimeout)
    ELSE shown

\* One turn of the message loop: the message was handled by Update, which
\* returned r; the returned model replaces m and the returned commands are
\* started.  tea.Quit and a panic end the program, and with it every message
\* still in flight.  armed: the message was a ResultMsg, which arms the countdown.
Handle(r, armed, pendingQueries, pendingTicks, pendingPulses, pendingUpdates) ==
    /\ m' = r.m
    /\ IF r.panic \/ \E i \in 1..Len(r.cmds) : r.cmds[i].type = "Quit"
       THEN /\ status' = IF r.panic THEN "panic" ELSE "quit"
            /\ queries' = EmptyBag
            /\ ticks' = EmptyBag
            /\ pulses' = 0
            /\ updates' = EmptyBag
            /\ shown' = <<>>
       ELSE /\ status' = "running"
            /\ queries' = pendingQueries (+) Delivered(r.cmds, "Query", QueryOf)
            /\ ticks' = pendingTicks (+) Delivered(r.cmds, "Tick", TickOf)
            /\ pulses' = pendingPulses
                         + Cardinality({i \in 1..Len(r.cmds) : r.cmds[i].type = "Pulse"})
            /\ updates' = pendingUpdates (+) Delivered(r.cmds, "Highlight", RowOf)
            /\ shown' = NextShown(m, r.m, armed)

\* Init of the program: the initial model and the first PulseMsg
Init ==
    /\ m = initialModel
    /\ status = "running"
    /\ queries = EmptyBag
    /\ ticks = EmptyBag
    /\ pulses = 1
    /\ updates = EmptyBag
    /\ shown = <<>>
    /\ committed = <<>>

One(x) == SetToBag({x})

\* the user presses a key
Key(key) ==
    /\ status = "running"
    /\ m.ready /\ m.state = TYPING /\ key \in CharKeys => Len(m.textarea.value) < MaxLen
    /\ BagCardinality(updates) < MaxUpdates
    /\ ~m.ready => 9 - m.pulseStep <= MaxSplashTicks
    /\ Handle(Update(m, KeyMsg(key), <<>>), FALSE, queries,
              IF m.ready /\ m.state = REFRESHING /\ key = "esc" THEN MarkStale(ticks) ELSE ticks,
              pulses, updates)
    /\ committed' = Committed(Update(m, KeyMsg(key), <<>>).cmds, committed)

\* the transport call of the query apl returns resp; keyOrder is the map
\* enumeration order the projection sees
Responded(apl, resp, keyOrder) ==
    /\ status = "running"
    /\ BagCardinality(ticks) < MaxTicks
    /\ apl \in BagToSet(queries)
    /\ Handle(Update(m, ResultMsg(apl, resp.result, resp.err), keyOrder), TRUE,
              queries (-) One(apl), ticks, pulses, updates)
    /\ UNCHANGED committed

ResultArrived ==
    \E apl \in BagToSet(queries), resp \in Responses :
        \E keyOrder \in MatchKeyOrders(resp.result) : Responded(apl, resp, keyOrder)

\* the refresh timer behind the pending message tick fires
Fired(tick) ==
    /\ status = "running"
    /\ tick \in BagToSet(ticks)
    /\ Handle(Update(m, tick, <<>>), FALSE, queries, ticks (-) One(tick), pulses, updates)
    /\ UNCHANGED committed

TimerFires == \E tick \in BagToSet(ticks) : Fired(tick)

\* the pulse timer fires
PulseFires ==
    /\ status = "running"
    /\ pulses > 0
    /\ Handle(Update(m, PulseMsg, <<>>), FALSE, queries, ticks, pulses - 1, updates)
    /\ UNCHANGED committed

\* the deferred highlight update for row is delivered
Applied(row) ==
    /\ status = "running"
    /\ row \in BagToSet(updates)
    /\ Handle(Update(m, Msg(row), <<>>), FALSE, queries, ticks, pulses, updates (-) One(row))
    /\ UNCHANGED committed

UpdateApplied == \E row \in BagToSet(updates) : Applied(row)

Next ==
    \/ \E key \in Keys : Key(key)
    \/ ResultArrived
    \/ TimerFires
    \/ PulseFires
    \/ UpdateApplied

Spec == Init /\ [][Next]_vars

\* ------------------------------------------------------------------ claims

\* the responses whose result is absent or has no intervals
WithoutIntervals == {resp \in Responses : resp.result.nil \/ Len(resp.result.Series) = 0}

\* a response of the transport is handled in this step
Answered(resp) ==
    \E apl \in BagToSet(queries) :
        \E keyOrder \in MatchKeyOrders(resp.result) : Responded(apl, resp, keyOrder)

\* C1: a ctrl+c key in any state, the splash state included, ends the program
\* and changes no field of the model.
CtrlCQuitsEverywhere ==
    [][Key("ctrl+c") => status' = "quit" /\ m' = m]_vars

StaleTickIgnored ==
    [][\A tick \in BagToSet(ticks) :
          tick.stale /\ Fired(tick)
          => m'.refreshTimeout = m.refreshTimeout /\ queries' = queries]_vars

\* the entry groups of interval i that belong to the group of row r
EntriesOf(result, queryMeta, r, i) ==
    {j \in 1..Len(result.Series[i].Groups) :
        getGroupKey(queryMeta.orderedGroupKeys, result.Series[i].Groups[j].Group)
            = queryMeta.groups[r]}

\* C4: in every graph matrix, a cell whose interval has no entry for the
\* row's group, or whose aggregation value is no float64, is NaN.
MissingCellsAreNaN ==
    ~m.graphs.nil =>
        \A g \in 1..Len(m.graphs.list) :
            \A r \in 1..Len(m.queryMeta.groups) :
                \A i \in 1..m.queryMeta.intervals :
                    LET entries == EntriesOf(m.query.result, m.queryMeta, r, i)
                        groups == m.query.result.Series[i].Groups
                    IN  (\/ entries = {}
                         \/ \E j \in entries :
                               /\ g <= Len(groups[j].Aggregations)
                               /\ groups[j].Aggregations[g].Value.t # "float64")
                        => m.graphs.list[g].data[r][i].nan

\* C5: after a response whose result is absent or has no intervals, whatever
\* its totals, queryMeta, graphs and the totals table are nil.
NoIntervalsNoArtifacts ==
    [][\A resp \in WithoutIntervals :
          Answered(resp)
          => /\ status' = "running"
             /\ m'.queryMeta.nil
             /\ m'.graphs.nil
             /\ m'.totalsTable.nil]_vars

\* C6: no response makes the handler of ResultMsg panic.
ResultNeverPanics ==
    [][ResultArrived => status' # "panic"]_vars

\* C7: right after every response, state = REFRESHING, refreshTimeout = 5, the
\* highlight is empty, matchesTableHighlightedIdx = -1 and the query holds the
\* apl, result and error of the response.
ResultArmsCountdown ==
    [][\A apl \in BagToSet(queries), resp \in Responses :
          (\E keyOrder \in MatchKeyOrders(resp.result) : Responded(apl, resp, keyOrder))
          => /\ status' = "running"
             /\ m'.state = REFRESHING
             /\ m'.refreshTimeout = 5
             /\ m'.highlightedGroup = <<>>
             /\ m'.matchesTableHighlightedIdx = -1
             /\ m'.query = [apl |-> apl, result |-> resp.result, err |-> resp.err]]_vars

\* text[a..b] is text without its leading and trailing white space
IsTrimmed(text, a, b) ==
    /\ a <= b
    /\ ~IsSpace(text[a])
    /\ ~IsSpace(text[b])
    /\ \A i \in 1..Len(text) : i < a \/ i > b => IsSpace(text[i])

\* C8: in Typing with ready = true, an enter key submits exactly one query,
\* carrying the trimmed text, and moves to Querying when the trimmed text is
\* not empty; it submits nothing and stays in Typing when it is empty.
EnterSubmitsTrimmedText ==
    [][m.ready /\ m.state = TYPING /\ Key("enter")
       => LET text == m.textarea.value
          IN  IF \A i \in 1..Len(text) : IsSpace(text[i])
              THEN queries' = queries /\ m'.state = TYPING
              ELSE \E a, b \in 1..Len(text) :
                      /\ IsTrimmed(text, a, b)
                      /\ queries' = queries (+) One(SubSeq(text, a, b))
                      /\ m'.state = QUERYING]_vars

\* C8 witness: the text " q" was committed and the query "q" is in flight.
TrimmedQueryInFlight ==
    /\ m.ready
    /\ m.state = QUERYING
    /\ m.textarea.value = <<32, 113>>
    /\ queries = One(<<113>>)

\* C9: the re-run of the query comes with the fifth tick after the countdown
\* was armed, the countdown having shown 5, 4, 3, 2, 1.
ReRunOnFifthTick ==
    [][\A tick \in BagToSet(ticks) :
          tick.type = "ReRunMsg" /\ Fired(tick) /\ m'.state = QUERYING /\ m.state = REFRESHING
          => shown = <<5, 4, 3, 2, 1>>]_vars

\* C10: whenever a result with at least one interval has been projected, there
\* is one graph per op, every graph has one row and one colour per group, and
\* every row has one cell per interval.
GraphShape ==
    /\ ~m.query.result.nil /\ Len(m.query.result.Series) > 0
          => ~m.graphs.nil /\ ~m.queryMeta.nil
    /\ ~m.graphs.nil
          => /\ ~m.queryMeta.nil
             /\ m.queryMeta.intervals = Len(m.query.result.Series)
             /\ Len(m.graphs.list) = Len(m.queryMeta.ops)
             /\ \A g \in 1..Len(m.graphs.list) :
                   /\ Len(m.graphs.list[g].data) = Len(m.queryMeta.groups)
                   /\ Len(m.graphs.list[g].colors) = Len(m.queryMeta.groups)
                   /\ \A r \in 1..Len(m.graphs.list[g].data) :
                         Len(m.graphs.list[g].data[r]) = m.queryMeta.intervals

\* C10 witness: two graphs over two groups and two intervals, re-projected
\* for a highlighted group.
GraphsProjected ==
    /\ ~m.graphs.nil
    /\ Len(m.graphs.list) = 2
    /\ Len(m.queryMeta.groups) = 2
    /\ m.queryMeta.intervals = 2
    /\ m.highlightedGroup # <<>>

\* the group key the highlight update forms from a totals row: its first
\* |orderedGroupKeys| cells, joined
RowKey(row, queryMeta) == Join(SubSeq(row, 1, Len(queryMeta.orderedGroupKeys)))

\* every series of every graph has the colour of its group
PaletteColours(model) ==
    \A g \in 1..Len(model.graphs.list) :
        \A i \in 1..Len(model.queryMeta.groups) :
            model.graphs.list[g].colors[i]
                = model.queryMeta.groupColors[model.queryMeta.groups[i]]

\* the series of the highlighted group has the colour of its group, every
\* other series is dimmed
DimmedColours(model) ==
    \A g \in 1..Len(model.graphs.list) :
        \A i \in 1..Len(model.queryMeta.groups) :
            model.graphs.list[g].colors[i]
                = IF model.queryMeta.groups[i] = model.highlightedGroup
                  THEN model.queryMeta.groupColors[model.queryMeta.groups[i]]
                  ELSE SlateGray

\* C11: once the highlight update of a selected totals row is applied,
\* highlightedGroup is the group key of the row's first |orderedGroupKeys|
\* cells, the series of that group keeps its colour and every other series is
\* dimmed; with no highlight, right after a response, every series has the
\* colour of its group.
HighlightFollowsRow ==
    /\ [][\A row \in BagToSet(updates) :
             Applied(row)
             => /\ status' = "running"
                /\ ~m.queryMeta.nil
                /\ m'.highlightedGroup = RowKey(row, m.queryMeta)
                /\ ~m'.graphs.nil => DimmedColours(m')]_vars
    /\ [][ResultArrived /\ status' = "running" /\ ~m'.graphs.nil
          => PaletteColours(m')]_vars

\* C12: applying the highlight update of a totals row once more changes
\* nothing in the model.
HighlightIdempotent ==
    [][\A row \in BagToSet(updates) :
          Applied(row) /\ status' = "running"
          => HighlightRow(m', row) = Done(m', <<>>)]_vars

\* C12 witness: the update of the totals row of group b has been applied, and
\* the series of group a is dimmed.
HighlightApplied ==
    /\ status = "running"
    /\ updates = EmptyBag
    /\ m.highlightedGroup = S_b
    /\ ~m.graphs.nil
    /\ m.graphs.list[1].colors[1] = SlateGray
    /\ m.graphs.list[1].colors[2] # SlateGray

\* C13: the matches table, the totals table, the query meta and the graph
\* matrices in the model are the ones every projection of the same result
\* yields, whatever order the result's field mappings are enumerated in.
ProjectionDeterministic ==
    ~m.query.result.nil =>
        \A keyOrder \in MatchKeyOrders(m.query.result) :
            /\ m.queryMeta = UpdateQueryMeta(m.query.result)
            /\ m.matchesTable.nil = UpdateMatchesTable(m.query.result, keyOrder).nil
            /\ ~m.matchesTable.nil
                  => /\ m.matchesTable.columns
                          = UpdateMatchesTable(m.query.result, keyOrder).columns
                     /\ m.matchesTable.rows
                          = UpdateMatchesTable(m.query.result, keyOrder).rows
            /\ ~m.totalsTable.nil
                  => /\ m.totalsTable.columns
                          = UpdateTotals(m.query.result, m.queryMeta).table.columns
                     /\ m.totalsTable.rows
                          = UpdateTotals(m.query.result, m.queryMeta).table.rows
            /\ ~m.graphs.nil
                  => \A g \in 1..Len(m.graphs.list) :
                        m.graphs.list[g].data
                            = UpdateGraphs(m.query.result, m.queryMeta, <<>>).graphs.list[g].data

\* C14: a timer message re-runs the query only in state REFRESHING with
\* refreshTimeout at most 1.
ReRunOnlyAtOne ==
    [][\A tick \in BagToSet(ticks) :
          Fired(tick) /\ queries' # queries
          => m.state = REFRESHING /\ m.refreshTimeout <= 1]_vars

\* C15: the query a timer message re-runs carries the text the user
\* committed last.
ReRunCarriesCommitted ==
    [][\A tick \in BagToSet(ticks) :
          Fired(tick) /\ queries' # queries
          => queries' = queries (+) One(committed)]_vars

\* C15 witness: the text " q" was committed and, the text area blurred by a
\* response, a re-run of "q" is in flight.
ReRunInFlight ==
    /\ status = "running"
    /\ m.state = QUERYING
    /\ ~m.textarea.focus
    /\ m.textarea.value = <<32, 113>>
    /\ committed = <<113>>
    /\ queries = One(<<113>>)

\* C16: one query is in flight exactly when state = QUERYING and none
\* otherwise; a step that changes the state or the queries in flight while in
\* QUERYING is no key other than ctrl+c, and only a response leaves QUERYING.
OneQueryInFlight ==
    /\ [](status = "running"
            => BagCardinality(queries) = IF m.state = QUERYING THEN 1 ELSE 0)
    /\ [][m.state = QUERYING /\ (m'.state # QUERYING \/ queries' # queries)
          => /\ \A key \in Keys \ {"ctrl+c"} : ~Key(key)
             /\ m'.state # QUERYING
                   => \E resp \in Responses :
                         /\ resp.result = m'.query.result
                         /\ resp.err = m'.query.err
                         /\ Answered(resp)]_vars

\* C16 witness: a query is in flight while a re-run timer of the countdown
\* the user left with escape is still pending.
QueryingWithPendingReRun ==
    /\ status = "running"
    /\ m.state = QUERYING
    /\ BagCardinality(queries) = 1
    /\ \E tick \in BagToSet(ticks) : tick.type = "ReRunMsg"

\* C17: in state REFRESHING the countdown is between 1 and 5.
CountdownInRange ==
    m.state = REFRESHING => m.refreshTimeout \in 1..5

\* C18: a highlight update never panics, and one applied while the totals
\* table of the last response has not seen a key (it is absent, or not yet
\* focused) leaves highlightedGroup empty.
StaleHighlightDropped ==
    [][UpdateApplied
       => /\ status' # "panic"
          /\ m.totalsTable.nil \/ ~m.totalsTable.focus
                => m'.highlightedGroup = <<>>]_vars

\* C19: with a matches table, matchesTableHighlightedIdx is -1 or the index
\* of a row, and the rows are the matches of the result; no response the
\* program handles leaves it other than -1, and it is the index of a row
\* after every up or down key the matches table handles.
MatchIndexInRange ==
    /\ [](~m.matchesTable.nil
            => /\ Len(m.matchesTable.rows) = Len(m.query.result.Matches)
               /\ m.matchesTableHighlightedIdx \in -1..(Len(m.matchesTable.rows) - 1))
    /\ [][status' = "running" /\ m'.matchesTableHighlightedIdx # -1
          => ~ResultArrived]_vars
    /\ [][\A key \in {"up", "down"} :
             /\ m.ready /\ m.state = REFRESHING
             /\ m.totalsTable.nil /\ ~m.matchesTable.nil
             /\ Key(key)
             => m'.matchesTableHighlightedIdx \in 0..(Len(m'.matchesTable.rows) - 1)]_vars

\* C19 witness: the second of two matches is highlighted.
SecondMatchHighlighted ==
    /\ status = "running"
    /\ ~m.matchesTable.nil
    /\ m.totalsTable.nil
    /\ Len(m.matchesTable.rows) = 2
    /\ m.matchesTableHighlightedIdx = 1

\* C20: pulseStep is within 0..9; on the splash screen a pulse tick moves it
\* to its cyclic predecessor and schedules the next tick; once ready a pulse
\* tick leaves it alone and schedules nothing.
PulseCycle ==
    /\ [](m.pulseStep \in 0..9)
    /\ [][PulseFires
          => IF ~m.ready
             THEN m'.pulseStep = (m.pulseStep + 9) % 10 /\ pulses' = pulses
             ELSE m'.pulseStep = m.pulseStep /\ pulses' = pulses - 1]_vars

\* C20 witness: the splash screen has pulsed down to step 0, the next tick
\* pending.
PulseAtZero ==
    /\ ~m.ready
    /\ m.pulseStep = 0
    /\ pulses = 1

====
